---------------------------- MODULE Spec2Model ----------------------------
(***************************************************************************)
(* blizbase: the guild roster reconciler (blizzClient, src/main.go) and    *)
(* the self-update controller (watchForUpdates, src/unnamed/part_002).     *)
(*                                                                         *)
(* Strings are sequences of one-character strings, so that the decimal     *)
(* text produced by strconv.FormatInt / FormatFloat can be compared with a *)
(* stored text value.  A float64 is modelled by the integer number of its  *)
(* tenths (55 is 5.5, 50 is 5.0).                                          *)
(***************************************************************************)
EXTENDS Integers, Sequences, FiniteSets, TLC

(***************************************************************************)
(* Bounds of the model                                                     *)
(***************************************************************************)
MaxId == 2                       \* character ids are 1..MaxId

Ids == 1..MaxId
Levels == {5, 6}                 \* the levels a profile may report

(***************************************************************************)
(* The two goroutines that run blizzClient: the cron job "Update" and the  *)
(* goroutine started by the OnServe hook.  (The model keeps one goroutine  *)
(* of the cron job at a time.)                                             *)
(***************************************************************************)
Jobs == {"cron", "serve"}

maxRetries == 3

VARIABLES
    store,            \* the "characters" collection: id -> stored record
    remoteLevel,      \* the game API: guild member -> level in its profile
    served,           \* the OnServe hook has run
    exited,           \* 0 while the process runs, else its exit status
    pc,               \* position of each blizzClient goroutine
    roster,           \* blizzClient's local roster (a nil pointer or Members)
    existingRecords,  \* blizzClient's local snapshot of the collection
    rosterKeys,       \* blizzClient's local set of seen ids
    idx,              \* index of the next roster member
    header,           \* blizzClient's local header: TRUE when not nil
    err,              \* blizzClient's local err: TRUE when not nil
    todo,             \* snapshot keys the cleanup loop has not visited yet
    obs,              \* what each pass did (history, per goroutine)
    lastClean,        \* the last completed pass was alone and fault free
    lastFaulty,       \* the last completed pass was alone and some write failed
    registryDigest,   \* the digest the registry serves for the tag
    localImage,       \* the engine's image for the reference (or none)
    containers,       \* the engine's containers whose ancestor is the image
    upc,              \* position of the watchForUpdates goroutine
    remoteDigest,     \* watchForUpdates' local remoteDigest
    localDigest,      \* watchForUpdates' local localDigest
    containerID,      \* watchForUpdates' local containerID
    calls,            \* the registry and engine calls of the current pass
    prevPullFailed,   \* the pass before the current one ended on a failed pull
    burst,            \* the limiter's burst: requestCount of NewThrottledTransport
    tokens,           \* the limiter's tokens
    rpc,              \* position of each caller of ThrottledTransport.RoundTrip
    ctx,              \* the context of each request: live or done
    waitErr,          \* ratelimiter.Wait returned an error to the caller
    forwards,         \* calls of roundTripperWrap.RoundTrip for each request
    resp,             \* what RoundTrip returned to each caller
    stored,           \* record.Get(key) of the comparison loop
    candidate,        \* the value of fieldValues[key] of the comparison loop
    differs,          \* what the comparison of the two found
    defaultTransport, \* http.DefaultClient.Transport: 0 when nil, else a limiter
    limiters,         \* the limiters NewThrottledTransport has built so far
    remoteCalls,      \* the remote calls made, each with the limiter it met
    tpc,              \* position of each blizzClient goroutine in its calls
    clock,            \* the time elapsed, in time units
    credit,           \* what the limiter holds, in tokens per Period
    admits            \* the requests the limiter admitted at each time

rosterVars == <<store, remoteLevel, served, pc, roster,
                existingRecords, rosterKeys, idx, header, err, todo, obs, lastClean,
                lastFaulty>>

updateVars == <<registryDigest, localImage, containers, upc, remoteDigest,
                localDigest, containerID, calls, prevPullFailed>>

transportVars == <<burst, tokens, rpc, ctx, waitErr, forwards, resp>>

normalizeVars == <<stored, candidate, differs>>

sharingVars == <<defaultTransport, limiters, remoteCalls, tpc>>

rateVars == <<clock, credit, admits>>

(***************************************************************************)
(* Text                                                                    *)
(***************************************************************************)
Digits == <<"0", "1", "2", "3", "4", "5", "6", "7", "8", "9">>

RECURSIVE FormatNat(_)
FormatNat(n) ==
    IF n < 10 THEN <<Digits[n + 1]>>
    ELSE FormatNat(n \div 10) \o <<Digits[(n % 10) + 1]>>

\* strconv.FormatInt(n, 10) and strconv.Itoa(n)
FormatInt(n) == IF n < 0 THEN <<"-">> \o FormatNat(-n) ELSE FormatNat(n)

Abs(t) == IF t < 0 THEN -t ELSE t

\* int64(n) of a float64 n given in tenths: truncation toward zero
ToInt64(t) == IF t < 0 THEN -((-t) \div 10) ELSE t \div 10

\* float64(i) of an integer, in tenths
ToFloat64(i) == i * 10

\* strconv.FormatFloat(n, 'f', -1, 64): the shortest decimal text
FormatFloat(t) ==
    IF t % 10 = 0 THEN FormatInt(ToInt64(t))
    ELSE (IF t < 0 THEN <<"-">> ELSE << >>)
         \o FormatNat(Abs(t) \div 10) \o <<".">> \o <<Digits[(Abs(t) % 10) + 1]>>

\* strconv.FormatFloat(n, 'f', 1, 64): one decimal always (not the code's)
FormatFloatFixed1(t) ==
    (IF t < 0 THEN <<"-">> ELSE << >>)
    \o FormatNat(Abs(t) \div 10) \o <<".">> \o <<Digits[(Abs(t) % 10) + 1]>>

\* fmt.Sprintf("%v", v) of an int or a string
Sprintf(kind, v) == IF kind = "int" THEN FormatInt(v) ELSE v

normalizeValueFixed1(kind, v) ==
    CASE kind = "float64" -> FormatFloatFixed1(v)
      [] kind = "float32" -> FormatFloatFixed1(v)
      [] OTHER -> Sprintf(kind, v)

normalizeValue(kind, v) ==
    CASE kind = "float64" ->
            IF v = ToFloat64(ToInt64(v)) THEN FormatInt(ToInt64(v))
            ELSE FormatFloat(v)
      [] kind = "float32" ->
            IF v = ToFloat64(ToInt64(v)) THEN FormatInt(ToInt64(v))
            ELSE FormatFloat(v)
      [] OTHER -> Sprintf(kind, v)

(***************************************************************************)
(* Records.  Of the 28 fields of the collection the model keeps one        *)
(* TextField and one NumberField; a stored record holds the values the     *)
(* fields' types coerce to (text, float64).                                *)
(***************************************************************************)
FieldNames == {"name", "level"}
NumberFields == {"level"}

StoredKind(key) == IF key \in NumberFields THEN "float64" ELSE "string"
CandidateKind(key) == IF key \in NumberFields THEN "int" ELSE "string"

\* the character's name at the game API
NameOf(id) == <<"c">> \o FormatInt(id)

\* fieldValues of blizzClient for the profile of character id at level lv
fieldValues(id, lv) == [name |-> NameOf(id), level |-> lv]

\* record.Set through the collection's fields
setRecordFields(fields) ==
    [key \in FieldNames |->
        IF key \in NumberFields THEN ToFloat64(fields[key]) ELSE fields[key]]

\* the comparison loop of blizzClient without normalizeValue (not the code's)
sameRaw(record, fields) ==
    \A key \in FieldNames :
        <<StoredKind(key), record[key]>> = <<CandidateKind(key), fields[key]>>

\* the comparison loop of blizzClient over the text fields only (not the
\* code's)
sameTextOnly(record, fields) ==
    \A key \in FieldNames \ NumberFields :
        normalizeValue(StoredKind(key), record[key])
            = normalizeValue(CandidateKind(key), fields[key])

\* the comparison loop of blizzClient: no field differs
same(record, fields) ==
    \A key \in FieldNames :
        normalizeValue(StoredKind(key), record[key])
            = normalizeValue(CandidateKind(key), fields[key])

\* what a stored record may hold: a saved profile, or a level edited by hand
StoredLevels == {ToFloat64(lv) : lv \in Levels} \cup {55}
StoredRecords(id) == {[name |-> NameOf(id), level |-> t] : t \in StoredLevels}

Keys(f) == DOMAIN f
Put(f, k, v) == [x \in (DOMAIN f) \cup {k} |-> IF x = k THEN v ELSE f[x]]
Remove(f, k) == [x \in (DOMAIN f) \ {k} |-> f[x]]
Empty == << >>

(***************************************************************************)
(* The game API                                                            *)
(***************************************************************************)
\* the guild's members at the game API
RemoteRoster == DOMAIN remoteLevel

\* a *GuildRoster: nil, or a roster with its Members
NilRoster == [isNil |-> TRUE, Members |-> << >>]
Roster(ms) == [isNil |-> FALSE, Members |-> ms]

Min(S) == CHOOSE x \in S : \A y \in S : x <= y

\* roster.Members: the members in the order the API lists them
RECURSIVE Members(_)
Members(S) == IF S = {} THEN << >> ELSE <<Min(S)>> \o Members(S \ {Min(S)})

\* a profile fetch answers with or without response metadata (header) and
\* with or without an error
FetchOutcomes == [hdr : BOOLEAN, err : BOOLEAN]

\* for attempt := 1; attempt < maxRetries && header == nil; attempt++
\* outs[k] is the answer to the k-th call; the result is the number of calls
RECURSIVE RetryLoopNoHeaderTest(_, _)
RetryLoopNoHeaderTest(outs, attempt) ==
    IF attempt < maxRetries
    THEN RetryLoopNoHeaderTest(outs, attempt + 1)
    ELSE attempt

\* the retry loop going on after an error as well (not the code's)
RECURSIVE RetryLoopOnError(_, _)
RetryLoopOnError(outs, attempt) ==
    IF attempt < maxRetries /\ (~outs[attempt].hdr \/ outs[attempt].err)
    THEN RetryLoopOnError(outs, attempt + 1)
    ELSE attempt

RECURSIVE RetryLoop(_, _)
RetryLoop(outs, attempt) ==
    IF attempt < maxRetries /\ ~outs[attempt].hdr
    THEN RetryLoop(outs, attempt + 1)
    ELSE attempt

(***************************************************************************)
(* blizzClient                                                             *)
(***************************************************************************)
\* history of a pass: the roster fetch failed; FindAllRecords failed; the
\* headers of the calls made for the current member; the ids skipped with a
\* nil header and those skipped for an error that came with a header; the ids
\* a Save and a Delete was issued for and those whose write failed; the pass
\* before this one was clean; no other pass ran during this one
NoObs == [rosterErr |-> FALSE, findErr |-> FALSE, hdrLog |-> << >>,
          skippedNil |-> {}, skippedErr |-> {}, saved |-> {}, deleted |-> {},
          failed |-> {}, prevClean |-> FALSE, alone |-> TRUE]

\* the history of a pass is kept as long as the pass runs alone
Overlapped == [NoObs EXCEPT !.alone = FALSE]
Observe(j, o) == IF obs[j].alone THEN o ELSE obs[j]

\* a goroutine enters blizzClient
Spawn(j) ==
    /\ pc[j] = "idle"
    /\ pc' = [pc EXCEPT ![j] = "roster"]
    /\ obs' = IF \A k \in Jobs : pc[k] = "idle"
              THEN [obs EXCEPT ![j] = [NoObs EXCEPT !.prevClean = lastClean]]
              ELSE [k \in Jobs |-> IF k = j \/ pc[k] # "idle"
                                   THEN Overlapped ELSE obs[k]]

\* app.Cron().MustAdd("Update", "*/7 * * * *", ...): the job is due at the
\* minutes divisible by seven, the first time after app.Start() has run the
\* OnServe hooks
CronUpdate ==
    /\ exited = 0
    /\ served
    /\ Spawn("cron")
    /\ UNCHANGED <<store, remoteLevel, served, exited, roster,
                   existingRecords, rosterKeys, idx, header, err, todo, lastClean>>
    /\ UNCHANGED lastFaulty
    /\ UNCHANGED updateVars
    /\ UNCHANGED <<transportVars, normalizeVars, sharingVars, rateVars>>

\* the second OnServe hook: an initial update when the collection is empty
\* (total is tested before err, and is 0 when CountRecords failed)
OnServe ==
    /\ exited = 0
    /\ ~served
    /\ served' = TRUE
    /\ \E countErr \in BOOLEAN :
          LET total == IF countErr THEN 0 ELSE Cardinality(Keys(store))
          IN  IF total = 0
              THEN Spawn("serve")
              ELSE UNCHANGED <<pc, obs>>
    /\ UNCHANGED <<store, remoteLevel, exited, roster,
                   existingRecords, rosterKeys, idx, header, err, todo, lastClean>>
    /\ UNCHANGED lastFaulty
    /\ UNCHANGED updateVars
    /\ UNCHANGED <<transportVars, normalizeVars, sharingVars, rateVars>>

\* euBlizzClient.WoWGuildRoster: an error is logged and the pass goes on with
\* the roster the client returned with it
FetchRoster(j) ==
    /\ exited = 0
    /\ pc[j] = "roster"
    /\ \E res \in {"ok", "errEmpty", "errNil"} :
          /\ roster' = [roster EXCEPT ![j] =
                          CASE res = "ok" -> Roster(Members(RemoteRoster))
                            [] res = "errEmpty" -> Roster(<< >>)
                            [] OTHER -> NilRoster]
          /\ obs' = [obs EXCEPT ![j] =
                       Observe(j, [obs[j] EXCEPT !.rosterErr = (res # "ok")])]
    /\ pc' = [pc EXCEPT ![j] = "load"]
    /\ UNCHANGED <<store, remoteLevel, served, exited,
                   existingRecords, rosterKeys, idx, header, err, todo, lastClean>>
    /\ UNCHANGED lastFaulty
    /\ UNCHANGED updateVars
    /\ UNCHANGED <<transportVars, normalizeVars, sharingVars, rateVars>>

\* app.FindAllRecords, existingRecords and rosterKeys (a nil roster is
\* dereferenced at len(roster.Members), which panics)
LoadRecords(j) ==
    /\ exited = 0
    /\ pc[j] = "load"
    /\ \E findErr \in BOOLEAN :
          IF findErr
          THEN /\ pc' = [pc EXCEPT ![j] = "done"]
               /\ obs' = [obs EXCEPT ![j] =
                            Observe(j, [obs[j] EXCEPT !.findErr = TRUE])]
               /\ UNCHANGED <<existingRecords, rosterKeys, idx, header, err, exited>>
          ELSE /\ existingRecords' = [existingRecords EXCEPT ![j] = store]
               /\ UNCHANGED obs
               /\ IF roster[j].isNil
                  THEN /\ pc' = [pc EXCEPT ![j] = "panic"]
                       /\ exited' = 2
                       /\ UNCHANGED <<rosterKeys, idx, header, err>>
                  ELSE /\ pc' = [pc EXCEPT ![j] = "members"]
                       /\ rosterKeys' = [rosterKeys EXCEPT ![j] = {}]
                       /\ idx' = [idx EXCEPT ![j] = 1]
                       /\ UNCHANGED <<exited, header, err>>
    /\ UNCHANGED <<store, remoteLevel, served, roster, todo, lastClean>>
    /\ UNCHANGED lastFaulty
    /\ UNCHANGED updateVars
    /\ UNCHANGED <<transportVars, normalizeVars, sharingVars, rateVars>>

\* the head of an iteration of "for _, member := range roster.Members": the
\* profile fetch and its retries
FetchProfile(j) ==
    /\ exited = 0
    /\ pc[j] = "members"
    /\ idx[j] <= Len(roster[j].Members)
    /\ \E outs \in [1..maxRetries -> FetchOutcomes] :
          LET made == RetryLoop(outs, 1)
          IN  /\ header' = [header EXCEPT ![j] = outs[made].hdr]
              /\ err' = [err EXCEPT ![j] = outs[made].err]
              /\ obs' = [obs EXCEPT ![j] =
                           Observe(j, [obs[j] EXCEPT !.hdrLog =
                                          [k \in 1..made |-> outs[k].hdr]])]
    /\ pc' = [pc EXCEPT ![j] = "fetched"]
    /\ UNCHANGED <<store, remoteLevel, served, exited, roster,
                   existingRecords, rosterKeys, idx, todo, lastClean>>
    /\ UNCHANGED lastFaulty
    /\ UNCHANGED updateVars
    /\ UNCHANGED <<transportVars, normalizeVars, sharingVars, rateVars>>

\* the iteration with the id marked as seen once its record is written (not
\* the code's)
ApplyMemberSeenOnSave(j) ==
    /\ exited = 0
    /\ pc[j] = "fetched"
    /\ pc' = [pc EXCEPT ![j] = "members"]
    /\ idx' = [idx EXCEPT ![j] = @ + 1]
    /\ header' = [header EXCEPT ![j] = FALSE]
    /\ err' = [err EXCEPT ![j] = FALSE]
    /\ \E saveOk \in BOOLEAN :
          LET member == roster[j].Members[idx[j]]
              o1 == [obs[j] EXCEPT !.hdrLog = << >>]
              idValue == FormatInt(member)
              fields == fieldValues(member, remoteLevel[member])
          IN  IF err[j]
              THEN /\ obs' = [obs EXCEPT ![j] = Observe(j,
                                IF header[j]
                                THEN [o1 EXCEPT !.skippedErr = @ \cup {idValue}]
                                ELSE [o1 EXCEPT !.skippedNil = @ \cup {idValue}])]
                   /\ UNCHANGED <<store, rosterKeys>>
              ELSE IF ~header[j]
              THEN /\ obs' = [obs EXCEPT ![j] =
                                Observe(j, [o1 EXCEPT !.skippedNil = @ \cup {idValue}])]
                   /\ UNCHANGED <<store, rosterKeys>>
              ELSE /\ rosterKeys' = [rosterKeys EXCEPT ![j] =
                                     IF IF idValue \in Keys(existingRecords[j])
                                        THEN \/ same(existingRecords[j][idValue], fields)
                                             \/ saveOk /\ idValue \in Keys(store)
                                        ELSE saveOk /\ idValue \notin Keys(store)
                                     THEN @ \cup {idValue} ELSE @]
                   /\ IF idValue \in Keys(existingRecords[j])
                      THEN IF same(existingRecords[j][idValue], fields)
                           THEN /\ obs' = [obs EXCEPT ![j] = Observe(j, o1)]
                                /\ UNCHANGED store
                           ELSE \* app.Save of the loaded record: an UPDATE
                                /\ store' = IF saveOk /\ idValue \in Keys(store)
                                            THEN Put(store, idValue, setRecordFields(fields))
                                            ELSE store
                                /\ obs' = [obs EXCEPT ![j] = Observe(j,
                                             [o1 EXCEPT !.saved = @ \cup {idValue},
                                                        !.failed = IF saveOk THEN @
                                                                   ELSE @ \cup {idValue}])]
                      ELSE \* app.Save of a new record: an INSERT, the id is unique
                           LET ok == saveOk /\ idValue \notin Keys(store)
                           IN  /\ store' = IF ok
                                           THEN Put(store, idValue, setRecordFields(fields))
                                           ELSE store
                               /\ obs' = [obs EXCEPT ![j] = Observe(j,
                                            [o1 EXCEPT !.saved = @ \cup {idValue},
                                                       !.failed = IF ok THEN @
                                                                  ELSE @ \cup {idValue}])]
    /\ UNCHANGED <<remoteLevel, served, exited, roster, existingRecords, todo,
                   lastClean>>
    /\ UNCHANGED lastFaulty
    /\ UNCHANGED updateVars
    /\ UNCHANGED <<transportVars, normalizeVars, sharingVars, rateVars>>

\* the rest of the iteration: skip the member, or mark it seen, compare and
\* save
ApplyMember(j) ==
    /\ exited = 0
    /\ pc[j] = "fetched"
    /\ pc' = [pc EXCEPT ![j] = "members"]
    /\ idx' = [idx EXCEPT ![j] = @ + 1]
    /\ header' = [header EXCEPT ![j] = FALSE]
    /\ err' = [err EXCEPT ![j] = FALSE]
    /\ \E saveOk \in BOOLEAN :
          LET member == roster[j].Members[idx[j]]
              o1 == [obs[j] EXCEPT !.hdrLog = << >>]
              idValue == FormatInt(member)
              fields == fieldValues(member, remoteLevel[member])
          IN  IF err[j]
              THEN /\ obs' = [obs EXCEPT ![j] = Observe(j,
                                IF header[j]
                                THEN [o1 EXCEPT !.skippedErr = @ \cup {idValue}]
                                ELSE [o1 EXCEPT !.skippedNil = @ \cup {idValue}])]
                   /\ UNCHANGED <<store, rosterKeys>>
              ELSE IF ~header[j]
              THEN /\ obs' = [obs EXCEPT ![j] =
                                Observe(j, [o1 EXCEPT !.skippedNil = @ \cup {idValue}])]
                   /\ UNCHANGED <<store, rosterKeys>>
              ELSE /\ rosterKeys' = [rosterKeys EXCEPT ![j] = @ \cup {idValue}]
                   /\ IF idValue \in Keys(existingRecords[j])
                      THEN IF same(existingRecords[j][idValue], fields)
                           THEN /\ obs' = [obs EXCEPT ![j] = Observe(j, o1)]
                                /\ UNCHANGED store
                           ELSE \* app.Save of the loaded record: an UPDATE
                                /\ store' = IF saveOk /\ idValue \in Keys(store)
                                            THEN Put(store, idValue, setRecordFields(fields))
                                            ELSE store
                                /\ obs' = [obs EXCEPT ![j] = Observe(j,
                                             [o1 EXCEPT !.saved = @ \cup {idValue},
                                                        !.failed = IF saveOk THEN @
                                                                   ELSE @ \cup {idValue}])]
                      ELSE \* app.Save of a new record: an INSERT, the id is unique
                           LET ok == saveOk /\ idValue \notin Keys(store)
                           IN  /\ store' = IF ok
                                           THEN Put(store, idValue, setRecordFields(fields))
                                           ELSE store
                               /\ obs' = [obs EXCEPT ![j] = Observe(j,
                                            [o1 EXCEPT !.saved = @ \cup {idValue},
                                                       !.failed = IF ok THEN @
                                                                  ELSE @ \cup {idValue}])]
    /\ UNCHANGED <<remoteLevel, served, exited, roster, existingRecords, todo,
                   lastClean>>
    /\ UNCHANGED lastFaulty
    /\ UNCHANGED updateVars
    /\ UNCHANGED <<transportVars, normalizeVars, sharingVars, rateVars>>

\* the end of the member loop with no record left to the cleanup loop (not
\* the code's)
UpdateFinishedNoCleanup(j) ==
    /\ exited = 0
    /\ pc[j] = "members"
    /\ idx[j] > Len(roster[j].Members)
    /\ pc' = [pc EXCEPT ![j] = "cleanup"]
    /\ todo' = [todo EXCEPT ![j] = {}]
    /\ UNCHANGED <<store, remoteLevel, served, exited, roster,
                   existingRecords, rosterKeys, idx, header, err, obs, lastClean>>
    /\ UNCHANGED lastFaulty
    /\ UNCHANGED updateVars
    /\ UNCHANGED <<transportVars, normalizeVars, sharingVars, rateVars>>

\* "Update finished with %d members." / "Deleting old records..."
UpdateFinished(j) ==
    /\ exited = 0
    /\ pc[j] = "members"
    /\ idx[j] > Len(roster[j].Members)
    /\ pc' = [pc EXCEPT ![j] = "cleanup"]
    /\ todo' = [todo EXCEPT ![j] = Keys(existingRecords[j])]
    /\ UNCHANGED <<store, remoteLevel, served, exited, roster,
                   existingRecords, rosterKeys, idx, header, err, obs, lastClean>>
    /\ UNCHANGED lastFaulty
    /\ UNCHANGED updateVars
    /\ UNCHANGED <<transportVars, normalizeVars, sharingVars, rateVars>>

\* the cleanup loop left at the first Delete that fails (not the code's)
CleanupRecordReturnOnError(j) ==
    /\ exited = 0
    /\ pc[j] = "cleanup"
    /\ \E key \in todo[j], deleteOk \in BOOLEAN :
          /\ todo' = [todo EXCEPT ![j] = @ \ {key}]
          /\ IF key \notin rosterKeys[j]
             THEN /\ store' = IF deleteOk THEN Remove(store, key) ELSE store
                  /\ obs' = [obs EXCEPT ![j] = Observe(j,
                               [obs[j] EXCEPT !.deleted = @ \cup {key},
                                              !.failed = IF deleteOk THEN @
                                                         ELSE @ \cup {key}])]
                  /\ pc' = IF deleteOk THEN pc ELSE [pc EXCEPT ![j] = "done"]
             ELSE UNCHANGED <<store, obs, pc>>
    /\ UNCHANGED <<remoteLevel, served, exited, roster,
                   existingRecords, rosterKeys, idx, header, err, lastClean>>
    /\ UNCHANGED lastFaulty
    /\ UNCHANGED updateVars
    /\ UNCHANGED <<transportVars, normalizeVars, sharingVars, rateVars>>

\* the cleanup loop without the test of rosterKeys (not the code's)
CleanupRecordAll(j) ==
    /\ exited = 0
    /\ pc[j] = "cleanup"
    /\ \E key \in todo[j], deleteOk \in BOOLEAN :
          /\ todo' = [todo EXCEPT ![j] = @ \ {key}]
          /\ IF TRUE
             THEN /\ store' = IF deleteOk THEN Remove(store, key) ELSE store
                  /\ obs' = [obs EXCEPT ![j] = Observe(j,
                               [obs[j] EXCEPT !.deleted = @ \cup {key},
                                              !.failed = IF deleteOk THEN @
                                                         ELSE @ \cup {key}])]
             ELSE UNCHANGED <<store, obs>>
    /\ UNCHANGED <<remoteLevel, served, exited, pc, roster,
                   existingRecords, rosterKeys, idx, header, err, lastClean>>
    /\ UNCHANGED lastFaulty
    /\ UNCHANGED updateVars
    /\ UNCHANGED <<transportVars, normalizeVars, sharingVars, rateVars>>

\* one iteration of "for key, record := range existingRecords" (a Go map is
\* ranged over in no particular order)
CleanupRecord(j) ==
    /\ exited = 0
    /\ pc[j] = "cleanup"
    /\ \E key \in todo[j], deleteOk \in BOOLEAN :
          /\ todo' = [todo EXCEPT ![j] = @ \ {key}]
          /\ IF key \notin rosterKeys[j]
             THEN /\ store' = IF deleteOk THEN Remove(store, key) ELSE store
                  /\ obs' = [obs EXCEPT ![j] = Observe(j,
                               [obs[j] EXCEPT !.deleted = @ \cup {key},
                                              !.failed = IF deleteOk THEN @
                                                         ELSE @ \cup {key}])]
             ELSE UNCHANGED <<store, obs>>
    /\ UNCHANGED <<remoteLevel, served, exited, pc, roster,
                   existingRecords, rosterKeys, idx, header, err, lastClean>>
    /\ UNCHANGED lastFaulty
    /\ UNCHANGED updateVars
    /\ UNCHANGED <<transportVars, normalizeVars, sharingVars, rateVars>>

\* "Update and Cleanup done."
CleanupDone(j) ==
    /\ exited = 0
    /\ pc[j] = "cleanup"
    /\ todo[j] = {}
    /\ pc' = [pc EXCEPT ![j] = "done"]
    /\ UNCHANGED <<store, remoteLevel, served, exited, roster,
                   existingRecords, rosterKeys, idx, header, err, todo, obs, lastClean>>
    /\ UNCHANGED lastFaulty
    /\ UNCHANGED updateVars
    /\ UNCHANGED <<transportVars, normalizeVars, sharingVars, rateVars>>

\* every fetch of the pass succeeded and every write it issued succeeded
CleanPass(j) ==
    /\ pc[j] = "done"
    /\ obs[j].alone
    /\ ~obs[j].rosterErr
    /\ ~obs[j].findErr
    /\ rosterKeys[j] = {FormatInt(m) : m \in RemoteRoster}
    /\ obs[j].failed = {}

\* the roster, the snapshot and every profile were fetched and some write
\* the pass issued failed
FaultyPass(j) ==
    /\ pc[j] = "done"
    /\ obs[j].alone
    /\ ~obs[j].rosterErr
    /\ ~obs[j].findErr
    /\ rosterKeys[j] = {FormatInt(m) : m \in RemoteRoster}
    /\ obs[j].failed # {}

\* blizzClient returns and its goroutine ends
Return(j) ==
    /\ exited = 0
    /\ pc[j] = "done"
    /\ pc' = [pc EXCEPT ![j] = "idle"]
    /\ roster' = [roster EXCEPT ![j] = Roster(<< >>)]
    /\ existingRecords' = [existingRecords EXCEPT ![j] = Empty]
    /\ rosterKeys' = [rosterKeys EXCEPT ![j] = {}]
    /\ idx' = [idx EXCEPT ![j] = 1]
    /\ todo' = [todo EXCEPT ![j] = {}]
    /\ obs' = [obs EXCEPT ![j] = NoObs]
    /\ lastClean' = CleanPass(j)
    /\ lastFaulty' = FaultyPass(j)
    /\ UNCHANGED <<store, remoteLevel, served, exited, header, err>>
    /\ UNCHANGED updateVars
    /\ UNCHANGED <<transportVars, normalizeVars, sharingVars, rateVars>>

(***************************************************************************)
(* watchForUpdates                                                         *)
(***************************************************************************)
ghcrImage == <<"g", "h", "c", "r", ".", "i", "o", "/", "b">>
otherImage == <<"m", "i", "r", "r", "o", "r", "/", "b">>

Digests == {"sha256:AAA", "sha256:BBB"}

\* container ids as the engine reports them (64 hexadecimal digits, so that
\* containerID[:12] of the log line before the restart is defined)
ContainerIds == {"c1", "c2"}

\* strings.HasPrefix(d, ghcrImage+"@") of a repo digest "repo@digest"
HasPrefix(d) == d.repo = ghcrImage

\* the engine's answer to GET /images/{ref}/json
NoImage == [present |-> FALSE, RepoDigests |-> << >>]
Image(ds) == [present |-> TRUE, RepoDigests |-> ds]
RepoDigest(r, d) == [repo |-> r, digest |-> d]

LocalImages ==
    {NoImage, Image(<< >>)}
    \cup {Image(<<RepoDigest(ghcrImage, d)>>) : d \in Digests}
    \cup {Image(<<RepoDigest(otherImage, d), RepoDigest(ghcrImage, e)>>) :
            d \in Digests, e \in Digests}

\* for _, d := range imageInfo.RepoDigests: the first one of this repository
RECURSIVE FirstRepoDigest(_)
FirstRepoDigest(ds) ==
    IF ds = << >> THEN ""
    ELSE IF HasPrefix(Head(ds)) THEN Head(ds).digest
    ELSE FirstRepoDigest(Tail(ds))

\* a call of the pass: what was called, on which container, and the answer
Call(op, target, result) == [op |-> op, target |-> target, result |-> result]

\* app.Cron().MustAdd("SelfUpdate", "*/20 * * * *", ...)
CronSelfUpdate ==
    /\ exited = 0
    /\ upc = "idle"
    /\ upc' = "remote"
    /\ remoteDigest' = ""
    /\ localDigest' = ""
    /\ containerID' = ""
    /\ calls' = << >>
    /\ prevPullFailed' = /\ calls # << >>
                         /\ calls[Len(calls)].op = "pull"
                         /\ calls[Len(calls)].result # "ok"
    /\ UNCHANGED <<registryDigest, localImage, containers, exited>>
    /\ UNCHANGED rosterVars
    /\ UNCHANGED <<transportVars, normalizeVars, sharingVars, rateVars>>

\* watchForUpdates going on after a failed getRemoteDigest (not the code's)
GetRemoteDigestIgnoreError ==
    /\ exited = 0
    /\ upc = "remote"
    /\ \E token \in {"ok", "failed", "non200", "undecodable"},
          manifest \in {"ok", "failed", "non200", "noDigestHeader"} :
          IF token # "ok"
          THEN /\ calls' = Append(calls, Call("token", "", token))
               /\ upc' = "local"
               /\ UNCHANGED <<remoteDigest, localDigest, containerID>>
          ELSE /\ calls' = calls \o <<Call("token", "", token),
                                          Call("manifest", "", manifest)>>
               /\ IF manifest # "ok"
                  THEN /\ upc' = "local"
                       /\ UNCHANGED <<remoteDigest, localDigest, containerID>>
                  ELSE /\ remoteDigest' = registryDigest
                       /\ upc' = "local"
                       /\ UNCHANGED <<localDigest, containerID>>
    /\ UNCHANGED <<registryDigest, localImage, containers, exited>>
    /\ UNCHANGED prevPullFailed
    /\ UNCHANGED rosterVars
    /\ UNCHANGED <<transportVars, normalizeVars, sharingVars, rateVars>>

\* getRemoteDigest: getGHCRToken, then HEAD of the manifest
GetRemoteDigest ==
    /\ exited = 0
    /\ upc = "remote"
    /\ \E token \in {"ok", "failed", "non200", "undecodable"},
          manifest \in {"ok", "failed", "non200", "noDigestHeader"} :
          IF token # "ok"
          THEN /\ calls' = Append(calls, Call("token", "", token))
               /\ upc' = "idle"
               /\ UNCHANGED <<remoteDigest, localDigest, containerID>>
          ELSE /\ calls' = calls \o <<Call("token", "", token),
                                          Call("manifest", "", manifest)>>
               /\ IF manifest # "ok"
                  THEN /\ upc' = "idle"
                       /\ UNCHANGED <<remoteDigest, localDigest, containerID>>
                  ELSE /\ remoteDigest' = registryDigest
                       /\ upc' = "local"
                       /\ UNCHANGED <<localDigest, containerID>>
    /\ UNCHANGED <<registryDigest, localImage, containers, exited>>
    /\ UNCHANGED prevPullFailed
    /\ UNCHANGED rosterVars
    /\ UNCHANGED <<transportVars, normalizeVars, sharingVars, rateVars>>

\* getLocalDigest with 404 treated as any other failure (not the code's)
GetLocalDigestNotFoundFails ==
    /\ exited = 0
    /\ upc = "local"
    /\ \E inspect \in {"answered", "failed", "non200", "undecodable"} :
          LET status == IF inspect # "answered" THEN inspect
                        ELSE IF localImage.present THEN "200" ELSE "404"
          IN  /\ calls' = Append(calls, Call("inspect", "", status))
              /\ IF status = "404"
                 THEN /\ localDigest' = ""
                      /\ upc' = "idle"
                      /\ UNCHANGED <<remoteDigest, containerID>>
                 ELSE IF status # "200"
                 THEN /\ upc' = "idle"
                      /\ UNCHANGED <<remoteDigest, localDigest, containerID>>
                 ELSE /\ localDigest' = FirstRepoDigest(localImage.RepoDigests)
                      /\ upc' = "compare"
                      /\ UNCHANGED <<remoteDigest, containerID>>
    /\ UNCHANGED <<registryDigest, localImage, containers, exited>>
    /\ UNCHANGED prevPullFailed
    /\ UNCHANGED rosterVars
    /\ UNCHANGED <<transportVars, normalizeVars, sharingVars, rateVars>>

\* getLocalDigest: inspect the image
GetLocalDigest ==
    /\ exited = 0
    /\ upc = "local"
    /\ \E inspect \in {"answered", "failed", "non200", "undecodable"} :
          LET status == IF inspect # "answered" THEN inspect
                        ELSE IF localImage.present THEN "200" ELSE "404"
          IN  /\ calls' = Append(calls, Call("inspect", "", status))
              /\ IF status = "404"
                 THEN /\ localDigest' = ""
                      /\ upc' = "compare"
                      /\ UNCHANGED <<remoteDigest, containerID>>
                 ELSE IF status # "200"
                 THEN /\ upc' = "idle"
                      /\ UNCHANGED <<remoteDigest, localDigest, containerID>>
                 ELSE /\ localDigest' = FirstRepoDigest(localImage.RepoDigests)
                      /\ upc' = "compare"
                      /\ UNCHANGED <<remoteDigest, containerID>>
    /\ UNCHANGED <<registryDigest, localImage, containers, exited>>
    /\ UNCHANGED prevPullFailed
    /\ UNCHANGED rosterVars
    /\ UNCHANGED <<transportVars, normalizeVars, sharingVars, rateVars>>

\* watchForUpdates without the return of the up-to-date case (not the code's)
CompareAlwaysPull ==
    /\ exited = 0
    /\ upc = "compare"
    /\ upc' = "pull"
    /\ UNCHANGED <<remoteDigest, localDigest, containerID>>
    /\ UNCHANGED <<registryDigest, localImage, containers, calls, exited>>
    /\ UNCHANGED prevPullFailed
    /\ UNCHANGED rosterVars
    /\ UNCHANGED <<transportVars, normalizeVars, sharingVars, rateVars>>

\* if localDigest == remoteDigest { return }
Compare ==
    /\ exited = 0
    /\ upc = "compare"
    /\ IF localDigest = remoteDigest
       THEN /\ upc' = "idle"
            /\ UNCHANGED <<remoteDigest, localDigest, containerID>>
       ELSE /\ upc' = "pull"
            /\ UNCHANGED <<remoteDigest, localDigest, containerID>>
    /\ UNCHANGED <<registryDigest, localImage, containers, calls, exited>>
    /\ UNCHANGED prevPullFailed
    /\ UNCHANGED rosterVars
    /\ UNCHANGED <<transportVars, normalizeVars, sharingVars, rateVars>>

\* watchForUpdates going on after a failed pullImage (not the code's)
PullImageIgnoreError ==
    /\ exited = 0
    /\ upc = "pull"
    /\ \E pull \in {"ok", "failed", "non200", "unreadable", "errorEvent"} :
          /\ calls' = Append(calls, Call("pull", "", pull))
          /\ IF pull = "ok"
             THEN /\ localImage' = Image(<<RepoDigest(ghcrImage, registryDigest)>>)
                  /\ upc' = "list"
                  /\ UNCHANGED <<remoteDigest, localDigest, containerID>>
             ELSE /\ upc' = "list"
                  /\ UNCHANGED <<remoteDigest, localDigest, containerID, localImage>>
    /\ UNCHANGED <<registryDigest, containers, exited>>
    /\ UNCHANGED prevPullFailed
    /\ UNCHANGED rosterVars
    /\ UNCHANGED <<transportVars, normalizeVars, sharingVars, rateVars>>

\* pullImage: POST /images/create and the progress stream
PullImage ==
    /\ exited = 0
    /\ upc = "pull"
    /\ \E pull \in {"ok", "failed", "non200", "unreadable", "errorEvent"} :
          /\ calls' = Append(calls, Call("pull", "", pull))
          /\ IF pull = "ok"
             THEN /\ localImage' = Image(<<RepoDigest(ghcrImage, registryDigest)>>)
                  /\ upc' = "list"
                  /\ UNCHANGED <<remoteDigest, localDigest, containerID>>
             ELSE /\ upc' = "idle"
                  /\ UNCHANGED <<remoteDigest, localDigest, containerID, localImage>>
    /\ UNCHANGED <<registryDigest, containers, exited>>
    /\ UNCHANGED prevPullFailed
    /\ UNCHANGED rosterVars
    /\ UNCHANGED <<transportVars, normalizeVars, sharingVars, rateVars>>

\* getContainerID taking the last container of the list (not the code's)
GetContainerIDLast ==
    /\ exited = 0
    /\ upc = "list"
    /\ \E list \in {"ok", "failed", "non200", "undecodable"} :
          /\ calls' = Append(calls, Call("list", "", list))
          /\ IF list # "ok"
             THEN /\ upc' = "idle"
                  /\ UNCHANGED <<remoteDigest, localDigest, containerID, exited>>
             ELSE LET id == IF Len(containers) = 0 THEN ""
                            ELSE containers[Len(containers)]
                  IN  IF id = ""
                      THEN /\ exited' = 1
                           /\ upc' = "exit"
                           /\ containerID' = id
                           /\ UNCHANGED <<remoteDigest, localDigest>>
                      ELSE /\ containerID' = id
                           /\ upc' = "restart"
                           /\ UNCHANGED <<remoteDigest, localDigest, exited>>
    /\ UNCHANGED <<registryDigest, localImage, containers>>
    /\ UNCHANGED prevPullFailed
    /\ UNCHANGED rosterVars
    /\ UNCHANGED <<transportVars, normalizeVars, sharingVars, rateVars>>

\* getContainerID followed by the restart whatever it found (not the code's)
GetContainerIDNoExit ==
    /\ exited = 0
    /\ upc = "list"
    /\ \E list \in {"ok", "failed", "non200", "undecodable"} :
          /\ calls' = Append(calls, Call("list", "", list))
          /\ IF list # "ok"
             THEN /\ upc' = "idle"
                  /\ UNCHANGED <<remoteDigest, localDigest, containerID, exited>>
             ELSE /\ containerID' = IF Len(containers) = 0 THEN "" ELSE containers[1]
                  /\ upc' = "restart"
                  /\ UNCHANGED <<remoteDigest, localDigest, exited>>
    /\ UNCHANGED <<registryDigest, localImage, containers>>
    /\ UNCHANGED prevPullFailed
    /\ UNCHANGED rosterVars
    /\ UNCHANGED <<transportVars, normalizeVars, sharingVars, rateVars>>

\* getContainerID, and os.Exit(1) when there is no container
GetContainerID ==
    /\ exited = 0
    /\ upc = "list"
    /\ \E list \in {"ok", "failed", "non200", "undecodable"} :
          /\ calls' = Append(calls, Call("list", "", list))
          /\ IF list # "ok"
             THEN /\ upc' = "idle"
                  /\ UNCHANGED <<remoteDigest, localDigest, containerID, exited>>
             ELSE LET id == IF Len(containers) = 0 THEN "" ELSE containers[1]
                  IN  IF id = ""
                      THEN /\ exited' = 1
                           /\ upc' = "exit"
                           /\ containerID' = id
                           /\ UNCHANGED <<remoteDigest, localDigest>>
                      ELSE /\ containerID' = id
                           /\ upc' = "restart"
                           /\ UNCHANGED <<remoteDigest, localDigest, exited>>
    /\ UNCHANGED <<registryDigest, localImage, containers>>
    /\ UNCHANGED prevPullFailed
    /\ UNCHANGED rosterVars
    /\ UNCHANGED <<transportVars, normalizeVars, sharingVars, rateVars>>

\* restartContainer with a failure logged and the pass left (not the code's)
RestartContainerNoExit ==
    /\ exited = 0
    /\ upc = "restart"
    /\ \E restart \in {"204", "200", "failed", "other"} :
          /\ calls' = Append(calls, Call("restart", containerID, restart))
          /\ upc' = "idle"
          /\ UNCHANGED <<remoteDigest, localDigest, containerID, exited>>
    /\ UNCHANGED <<registryDigest, localImage, containers>>
    /\ UNCHANGED prevPullFailed
    /\ UNCHANGED rosterVars
    /\ UNCHANGED <<transportVars, normalizeVars, sharingVars, rateVars>>

\* restartContainer, and os.Exit(1) when it fails (when it succeeds the
\* function returns; the engine then stops and starts the container)
RestartContainer ==
    /\ exited = 0
    /\ upc = "restart"
    /\ \E restart \in {"204", "200", "failed", "other"} :
          /\ calls' = Append(calls, Call("restart", containerID, restart))
          /\ IF restart \in {"204", "200"}
             THEN /\ upc' = "idle"
                  /\ UNCHANGED <<remoteDigest, localDigest, containerID, exited>>
             ELSE /\ exited' = 1
                  /\ upc' = "exit"
                  /\ UNCHANGED <<remoteDigest, localDigest, containerID>>
    /\ UNCHANGED <<registryDigest, localImage, containers>>
    /\ UNCHANGED prevPullFailed
    /\ UNCHANGED rosterVars
    /\ UNCHANGED <<transportVars, normalizeVars, sharingVars, rateVars>>

\* a new image is pushed to the tag
Push ==
    /\ exited = 0
    /\ \E d \in Digests \ {registryDigest} : registryDigest' = d
    /\ UNCHANGED <<localImage, containers, upc, remoteDigest, localDigest,
                   containerID, calls, exited>>
    /\ UNCHANGED prevPullFailed
    /\ UNCHANGED rosterVars
    /\ UNCHANGED <<transportVars, normalizeVars, sharingVars, rateVars>>

InitUpdate ==
    /\ registryDigest \in Digests
    /\ localImage \in LocalImages
    /\ containers \in {<< >>} \cup {<<c>> : c \in ContainerIds}
                     \cup {cs \in ContainerIds \X ContainerIds : cs[1] # cs[2]}
    /\ upc = "idle"
    /\ remoteDigest = ""
    /\ localDigest = ""
    /\ containerID = ""
    /\ calls = << >>
    /\ prevPullFailed = FALSE

\* no self-update pass: the registry serves what the engine holds
QuietUpdate ==
    /\ InitUpdate
    /\ registryDigest = "sha256:AAA"
    /\ localImage = Image(<<RepoDigest(ghcrImage, "sha256:AAA")>>)
    /\ containers = <<"c1">>

(***************************************************************************)
(* ThrottledTransport                                                      *)
(***************************************************************************)
MaxReq == 3                      \* requests are 1..MaxReq
MaxBurst == 2                    \* requestCount is in 1..MaxBurst

Reqs == 1..MaxReq

\* NewThrottledTransport(limitPeriod, requestCount, transportWrap): a limiter
\* of one token every limitPeriod and of burst requestCount, which starts
\* with a full bucket
NewThrottledTransport(requestCount) ==
    [burst |-> requestCount, tokens |-> requestCount]

\* limitPeriod has elapsed: the limiter gains a token, up to its burst
Tick ==
    /\ tokens < burst
    /\ tokens' = tokens + 1
    /\ UNCHANGED <<burst, rpc, ctx, waitErr, forwards, resp>>
    /\ UNCHANGED <<rosterVars, updateVars, exited, normalizeVars, sharingVars,
                   rateVars>>

\* the caller cancels the context of its request, or its deadline fires
Cancel(r) ==
    /\ rpc[r] # "returned"
    /\ ctx[r] = "live"
    /\ ctx' = [ctx EXCEPT ![r] = "done"]
    /\ UNCHANGED <<burst, tokens, rpc, waitErr, forwards, resp>>
    /\ UNCHANGED <<rosterVars, updateVars, exited, normalizeVars, sharingVars,
                   rateVars>>

\* RoundTrip is called and calls ratelimiter.Wait(r.Context()): Wait returns
\* an error when the context is done, returns nil when a token is there, and
\* blocks otherwise
RoundTrip(r) ==
    /\ rpc[r] = "idle"
    /\ IF ctx[r] = "done"
       THEN /\ rpc' = [rpc EXCEPT ![r] = "returned"]
            /\ waitErr' = [waitErr EXCEPT ![r] = TRUE]
            /\ resp' = [resp EXCEPT ![r] = "error"]
            /\ UNCHANGED tokens
       ELSE IF tokens > 0
       THEN /\ tokens' = tokens - 1
            /\ rpc' = [rpc EXCEPT ![r] = "admitted"]
            /\ UNCHANGED <<waitErr, resp>>
       ELSE /\ rpc' = [rpc EXCEPT ![r] = "wait"]
            /\ UNCHANGED <<tokens, waitErr, resp>>
    /\ UNCHANGED <<burst, ctx, forwards>>
    /\ UNCHANGED <<rosterVars, updateVars, exited, normalizeVars, sharingVars,
                   rateVars>>

\* the blocked Wait returns nil: the limiter admits the request
WaitAdmits(r) ==
    /\ rpc[r] = "wait"
    /\ tokens > 0
    /\ tokens' = tokens - 1
    /\ rpc' = [rpc EXCEPT ![r] = "admitted"]
    /\ UNCHANGED <<burst, ctx, waitErr, forwards, resp>>
    /\ UNCHANGED <<rosterVars, updateVars, exited, normalizeVars, sharingVars,
                   rateVars>>

\* the blocked Wait returns the context's error, and RoundTrip goes on to
\* the wrapped RoundTrip all the same (not the code's)
WaitFailsForwarded(r) ==
    /\ rpc[r] = "wait"
    /\ ctx[r] = "done"
    /\ rpc' = [rpc EXCEPT ![r] = "admitted"]
    /\ waitErr' = [waitErr EXCEPT ![r] = TRUE]
    /\ UNCHANGED <<burst, tokens, ctx, forwards, resp>>
    /\ UNCHANGED <<rosterVars, updateVars, exited, normalizeVars, sharingVars,
                   rateVars>>

\* the blocked Wait returns the context's error: if err != nil { return nil, err }
WaitFails(r) ==
    /\ rpc[r] = "wait"
    /\ ctx[r] = "done"
    /\ rpc' = [rpc EXCEPT ![r] = "returned"]
    /\ waitErr' = [waitErr EXCEPT ![r] = TRUE]
    /\ resp' = [resp EXCEPT ![r] = "error"]
    /\ UNCHANGED <<burst, tokens, ctx, forwards>>
    /\ UNCHANGED <<rosterVars, updateVars, exited, normalizeVars, sharingVars,
                   rateVars>>

\* return c.roundTripperWrap.RoundTrip(r): the wrapped sender is called and
\* its answer (a response or an error) is returned
Forward(r) ==
    /\ rpc[r] = "admitted"
    /\ forwards' = [forwards EXCEPT ![r] = @ + 1]
    /\ \E answer \in {"response", "error"} : resp' = [resp EXCEPT ![r] = answer]
    /\ rpc' = [rpc EXCEPT ![r] = "returned"]
    /\ UNCHANGED <<burst, tokens, ctx, waitErr>>
    /\ UNCHANGED <<rosterVars, updateVars, exited, normalizeVars, sharingVars,
                   rateVars>>

InitTransport ==
    /\ \E requestCount \in 1..MaxBurst :
          /\ burst = NewThrottledTransport(requestCount).burst
          /\ tokens = NewThrottledTransport(requestCount).tokens
    /\ rpc = [r \in Reqs |-> "idle"]
    /\ ctx \in [Reqs -> {"live", "done"}]
    /\ waitErr = [r \in Reqs |-> FALSE]
    /\ forwards = [r \in Reqs |-> 0]
    /\ resp = [r \in Reqs |-> "none"]

\* no request
QuietTransport ==
    /\ InitTransport
    /\ burst = 1
    /\ ctx = [r \in Reqs |-> "live"]

(***************************************************************************)
(* The comparison of a stored value with a candidate value                 *)
(***************************************************************************)
\* values of the types normalizeValue tells apart (a float by its tenths)
Float64Of(t) == [kind |-> "float64", num |-> t, text |-> << >>]
Float32Of(t) == [kind |-> "float32", num |-> t, text |-> << >>]
IntOf(i) == [kind |-> "int", num |-> i, text |-> << >>]
TextOf(str) == [kind |-> "string", num |-> 0, text |-> str]

ValueOf(x) == IF x.kind = "string" THEN x.text ELSE x.num

Tenths == {-55, -50, 0, 5, 50, 55, 60, 100, 105}

Values ==
    {Float64Of(t) : t \in Tenths} \cup {Float32Of(t) : t \in Tenths}
    \cup {IntOf(i) : i \in {-5, 0, 5, 6, 10}}
    \cup {TextOf(FormatInt(i)) : i \in {-5, 0, 5, 6, 10}}
    \cup {TextOf(str) : str \in {<<"5", ".", "5">>, <<"5", ".", "0">>,
                               <<"-", "5", ".", "5">>, <<"0", ".", "5">>,
                               <<"1", "0", ".", "5">>, << >>}}

\* if normalizeValue(record.Get(key)) != normalizeValue(value) { same = false }
CompareField ==
    /\ differs = "unknown"
    /\ differs' = IF normalizeValue(stored.kind, ValueOf(stored))
                      # normalizeValue(candidate.kind, ValueOf(candidate))
                  THEN "changed" ELSE "same"
    /\ UNCHANGED <<stored, candidate>>
    /\ UNCHANGED <<rosterVars, updateVars, exited, transportVars, sharingVars,
                   rateVars>>

InitNormalize ==
    /\ stored \in Values
    /\ candidate \in Values
    /\ differs = "unknown"

\* no comparison
QuietNormalize ==
    /\ InitNormalize
    /\ stored = IntOf(0)
    /\ candidate = IntOf(0)

(***************************************************************************)
(* The transport of http.DefaultClient and the remote calls of the two jobs *)
(***************************************************************************)
MaxLimiters == 3                 \* at most MaxLimiters passes build a limiter

\* a remote call: the job that made it and the limiter its request went
\* through (0: http.DefaultClient.Transport was nil, so the request went
\* through http.DefaultTransport and met no limiter)
RemoteCall(job, limiter) == [job |-> job, limiter |-> limiter]

\* blizzClient is entered: throttledClient := http.DefaultClient and
\* throttledClient.Transport = NewThrottledTransport(...), a new limiter with
\* a full bucket, which every user of http.DefaultClient meets from now on
\* (the goroutine of the OnServe hook runs before the first cron job)
StartPass(j) ==
    /\ exited = 0
    /\ tpc[j] = "idle"
    /\ limiters < MaxLimiters
    /\ j = "serve" => limiters = 0
    /\ limiters' = limiters + 1
    /\ defaultTransport' = limiters + 1
    /\ tpc' = [tpc EXCEPT ![j] = "calls"]
    /\ UNCHANGED remoteCalls
    /\ UNCHANGED <<rosterVars, updateVars, exited, transportVars, normalizeVars,
                   rateVars>>

\* a call of euBlizzClient (AccessTokenRequest, WoWGuildRoster,
\* WoWCharacterProfileSummary): its HTTPClient is http.DefaultClient
GameCall(j) ==
    /\ exited = 0
    /\ tpc[j] = "calls"
    /\ remoteCalls' = remoteCalls \cup {RemoteCall("roster", defaultTransport)}
    /\ UNCHANGED <<defaultTransport, limiters, tpc>>
    /\ UNCHANGED <<rosterVars, updateVars, exited, transportVars, normalizeVars,
                   rateVars>>

\* blizzClient returns
EndPass(j) ==
    /\ exited = 0
    /\ tpc[j] = "calls"
    /\ tpc' = [tpc EXCEPT ![j] = "idle"]
    /\ UNCHANGED <<defaultTransport, limiters, remoteCalls>>
    /\ UNCHANGED <<rosterVars, updateVars, exited, transportVars, normalizeVars,
                   rateVars>>

\* http.DefaultClient.Do(req) of getGHCRToken and of getRemoteDigest
RegistryCall ==
    /\ exited = 0
    /\ remoteCalls' = remoteCalls \cup {RemoteCall("selfupdate", defaultTransport)}
    /\ UNCHANGED <<defaultTransport, limiters, tpc>>
    /\ UNCHANGED <<rosterVars, updateVars, exited, transportVars, normalizeVars,
                   rateVars>>

\* the process starts: http.DefaultClient.Transport is nil
InitSharing ==
    /\ defaultTransport = 0
    /\ limiters = 0
    /\ remoteCalls = {}
    /\ tpc = [j \in Jobs |-> "idle"]

QuietSharing == InitSharing

(***************************************************************************)
(* The limiter in time                                                     *)
(***************************************************************************)
Period == 2                      \* limitPeriod, in time units
MaxTime == 5                     \* the time runs from 0 to MaxTime

\* a time unit passes and the bucket is full again (not the code's)
ElapseFull ==
    /\ clock < MaxTime
    /\ clock' = clock + 1
    /\ credit' = burst * Period
    /\ UNCHANGED admits
    /\ UNCHANGED <<rosterVars, updateVars, exited, transportVars, normalizeVars,
                   sharingVars>>

\* a time unit passes: rate.Every(limitPeriod) is one token every limitPeriod,
\* and the bucket holds requestCount tokens at most
Elapse ==
    /\ clock < MaxTime
    /\ clock' = clock + 1
    /\ credit' = IF credit < burst * Period THEN credit + 1 ELSE credit
    /\ UNCHANGED admits
    /\ UNCHANGED <<rosterVars, updateVars, exited, transportVars, normalizeVars,
                   sharingVars>>

\* ratelimiter.Wait returns nil to a caller: the limiter admits a request for
\* one token
Admit ==
    /\ credit >= Period
    /\ credit' = credit - Period
    /\ admits' = [admits EXCEPT ![clock] = @ + 1]
    /\ UNCHANGED clock
    /\ UNCHANGED <<rosterVars, updateVars, exited, transportVars, normalizeVars,
                   sharingVars>>

QuietRate ==
    /\ clock = 0
    /\ credit = 0
    /\ admits = [t \in 0..MaxTime |-> 0]

(***************************************************************************)
(* The roster reconciler                                                   *)
(***************************************************************************)
\* the guild or a profile changes at the game API (between two passes)
RemoteChange ==
    /\ exited = 0
    /\ \A j \in Jobs : pc[j] = "idle"
    /\ remoteLevel' \in UNION {[R -> Levels] : R \in SUBSET Ids} \ {remoteLevel}
    /\ lastClean' = FALSE
    /\ lastFaulty' = FALSE
    /\ UNCHANGED <<store, served, exited, pc, roster, existingRecords,
                   rosterKeys, idx, header, err, todo, obs>>
    /\ UNCHANGED updateVars
    /\ UNCHANGED <<transportVars, normalizeVars, sharingVars, rateVars>>

Stores == UNION {[S -> UNION {StoredRecords(i) : i \in Ids}] :
                    S \in SUBSET {FormatInt(i) : i \in Ids}}

InitRoster ==
    /\ store \in {st \in Stores :
                    \A i \in Ids : FormatInt(i) \in Keys(st)
                                    => st[FormatInt(i)] \in StoredRecords(i)}
    /\ remoteLevel \in UNION {[R -> Levels] : R \in SUBSET Ids}
    /\ served = FALSE
    /\ pc = [j \in Jobs |-> "idle"]
    /\ roster = [j \in Jobs |-> Roster(<< >>)]
    /\ existingRecords = [j \in Jobs |-> Empty]
    /\ rosterKeys = [j \in Jobs |-> {}]
    /\ idx = [j \in Jobs |-> 1]
    /\ header = [j \in Jobs |-> FALSE]
    /\ err = [j \in Jobs |-> FALSE]
    /\ todo = [j \in Jobs |-> {}]
    /\ obs = [j \in Jobs |-> NoObs]
    /\ lastClean = FALSE
    /\ lastFaulty = FALSE

\* no roster in the game API, nothing stored, no pass
QuietRoster ==
    /\ InitRoster
    /\ store = Empty
    /\ remoteLevel = Empty

Init ==
    /\ InitRoster
    /\ QuietUpdate
    /\ QuietTransport
    /\ QuietNormalize
    /\ QuietSharing
    /\ QuietRate
    /\ exited = 0

Pass(j) ==
    \/ FetchRoster(j)
    \/ LoadRecords(j)
    \/ FetchProfile(j)
    \/ ApplyMember(j)
    \/ UpdateFinished(j)
    \/ CleanupRecord(j)
    \/ CleanupDone(j)
    \/ Return(j)

NoPassInProgress == \A j \in Jobs : pc[j] = "idle"

vars == <<store, remoteLevel, served, exited, pc, roster, existingRecords,
          rosterKeys, idx, header, err, todo, obs, lastClean, registryDigest,
          localImage, containers, upc, remoteDigest, localDigest, containerID,
          calls, lastFaulty, prevPullFailed, burst, tokens, rpc, ctx, waitErr,
          forwards, resp, stored, candidate, differs, defaultTransport,
          limiters, remoteCalls, tpc, clock, credit, admits>>

\* The roster reconciler when every pass finishes before the next one is
\* started (the cron schedule leaves seven minutes between two passes).
Next ==
    \/ NoPassInProgress /\ CronUpdate
    \/ NoPassInProgress /\ OnServe
    \/ \E j \in Jobs : Pass(j)
    \/ RemoteChange

Spec == Init /\ [][Next]_vars

\* The roster reconciler as main() schedules it, on a deployment that starts
\* with an empty collection: nothing keeps the cron job from firing while
\* the goroutine of the OnServe hook is still in its pass.
InitFresh ==
    /\ Init
    /\ store = Empty

NextOverrun ==
    \/ CronUpdate
    \/ OnServe
    \/ \E j \in Jobs : Pass(j)
    \/ RemoteChange

SpecOverrun == InitFresh /\ [][NextOverrun]_vars

\* The roster reconciler with its passes running on: a goroutine that is in
\* blizzClient takes its next step (every call it makes returns).  The remote
\* data does not change and every profile is at level 5; a stored record
\* holds that level or a level edited by hand.
InitPass ==
    /\ Init
    /\ \A m \in RemoteRoster : remoteLevel[m] = 5
    /\ \A k \in Keys(store) : store[k].level \in {50, 55}

NextPass ==
    \/ NoPassInProgress /\ CronUpdate
    \/ NoPassInProgress /\ OnServe
    \/ \E j \in Jobs : Pass(j)

SpecFair == InitPass /\ [][NextPass]_vars /\ \A j \in Jobs : WF_vars(Pass(j))

\* The self-update controller
InitSelfUpdate ==
    /\ QuietRoster
    /\ InitUpdate
    /\ QuietTransport
    /\ QuietNormalize
    /\ QuietSharing
    /\ QuietRate
    /\ exited = 0

NextUpdate ==
    \/ CronSelfUpdate
    \/ GetRemoteDigest
    \/ GetLocalDigest
    \/ Compare
    \/ PullImage
    \/ GetContainerID
    \/ RestartContainer
    \/ Push

SpecUpdate == InitSelfUpdate /\ [][NextUpdate]_vars

\* The rate-limited transport and its callers
InitThrottled ==
    /\ QuietRoster
    /\ QuietUpdate
    /\ InitTransport
    /\ QuietNormalize
    /\ QuietSharing
    /\ QuietRate
    /\ exited = 0

NextThrottled ==
    \/ Tick
    \/ \E r \in Reqs : Cancel(r)
    \/ \E r \in Reqs : RoundTrip(r)
    \/ \E r \in Reqs : WaitAdmits(r)
    \/ \E r \in Reqs : WaitFails(r)
    \/ \E r \in Reqs : Forward(r)

SpecThrottled == InitThrottled /\ [][NextThrottled]_vars

\* The transport as time goes on: the limiter gains its tokens, a blocked Wait
\* returns when it can, and an admitted request is handed to the wrapped
\* sender.
SpecThrottledFair ==
    /\ SpecThrottled
    /\ WF_vars(Tick)
    /\ \A r \in Reqs : /\ WF_vars(WaitAdmits(r))
                       /\ WF_vars(WaitFails(r))
                       /\ WF_vars(Forward(r))

\* The remote calls of the two jobs through http.DefaultClient
InitShared ==
    /\ QuietRoster
    /\ QuietUpdate
    /\ QuietTransport
    /\ QuietNormalize
    /\ InitSharing
    /\ QuietRate
    /\ exited = 0

NextShared ==
    \/ \E j \in Jobs : StartPass(j)
    \/ \E j \in Jobs : GameCall(j)
    \/ \E j \in Jobs : EndPass(j)
    \/ RegistryCall

SpecShared == InitShared /\ [][NextShared]_vars

\* One transport built by NewThrottledTransport, in time
InitRate ==
    /\ QuietRoster
    /\ QuietUpdate
    /\ InitTransport
    /\ ctx = [r \in Reqs |-> "live"]
    /\ QuietNormalize
    /\ QuietSharing
    /\ clock = 0
    /\ credit = tokens * Period
    /\ admits = [t \in 0..MaxTime |-> 0]
    /\ exited = 0

NextRate ==
    \/ Elapse
    \/ Admit

SpecRate == InitRate /\ [][NextRate]_vars

\* The comparison of the diff, over the values of the types it meets
InitCompare ==
    /\ QuietRoster
    /\ QuietUpdate
    /\ QuietTransport
    /\ InitNormalize
    /\ QuietSharing
    /\ QuietRate
    /\ exited = 0

NextCompare == CompareField

SpecCompare == InitCompare /\ [][NextCompare]_vars



(***************************************************************************)
(* Properties of a roster pass                                             *)
(***************************************************************************)
RosterIds == {FormatInt(m) : m \in RemoteRoster}

\* a pass that ran alone, got its roster and its snapshot, and is at its end
Completed(j) ==
    /\ pc[j] = "done"
    /\ obs[j].alone
    /\ ~obs[j].rosterErr
    /\ ~obs[j].findErr

\* C1: at the end of a pass over roster R and prior store S in which no write
\* failed, the keys of the store are the ids of R, except that the ids
\* skipped with a nil header are in the store as they were in S.
Convergence ==
    \A j \in Jobs :
        (Completed(j) /\ obs[j].failed = {}) =>
            LET S == existingRecords[j]
                skipped == obs[j].skippedNil
            IN  /\ Keys(store) = (RosterIds \ skipped) \cup (skipped \cap Keys(S))
                /\ \A k \in skipped \cap Keys(S) : store[k] = S[k]

\* C2: at the end of a pass, the record of a member that was skipped because
\* every fetch attempt came without a header is what it was before the pass:
\* not updated, and not deleted by the cleanup.
SkippedRecordUntouched ==
    \A j \in Jobs :
        (pc[j] = "done" /\ obs[j].alone) =>
            \A k \in obs[j].skippedNil \cap Keys(existingRecords[j]) :
                /\ k \notin obs[j].deleted
                /\ k \notin obs[j].saved
                /\ k \in Keys(store)
                /\ store[k] = existingRecords[j][k]

\* C3: a pass whose roster fetch failed issues no Save and no Delete, and at
\* its end every record stored before it is still stored.
RosterFailureAborts ==
    \A j \in Jobs :
        (obs[j].alone /\ obs[j].rosterErr) =>
            /\ obs[j].saved = {}
            /\ obs[j].deleted = {}
            /\ pc[j] = "done" =>
                 \A k \in Keys(existingRecords[j]) :
                    k \in Keys(store) /\ store[k] = existingRecords[j][k]

\* C4: a pass that follows a clean pass (roster, snapshot and every profile
\* fetched, every write succeeded) over unchanged remote data, and whose own
\* fetches succeed, issues no Save and no Delete.
Idempotence ==
    \A j \in Jobs :
        (/\ obs[j].alone
         /\ obs[j].prevClean
         /\ ~obs[j].rosterErr
         /\ obs[j].skippedNil = {}
         /\ obs[j].skippedErr = {}) =>
            (obs[j].saved = {} /\ obs[j].deleted = {})

\* a second pass at its end that compared every member with its record
IdempotenceWitness ==
    \E j \in Jobs :
        /\ Completed(j)
        /\ obs[j].prevClean
        /\ Cardinality(RosterIds) = MaxId
        /\ rosterKeys[j] = RosterIds
        /\ Keys(existingRecords[j]) = RosterIds
        /\ obs[j].saved = {}

\* C5: the calls made for one member are at most maxRetries, every call that
\* was followed by another one came without a header, and a member whose
\* calls all came without a header got exactly maxRetries calls.
RetryBound ==
    \A j \in Jobs :
        (pc[j] = "fetched" /\ obs[j].alone) =>
            LET log == obs[j].hdrLog
            IN  /\ Len(log) >= 1
                /\ Len(log) <= 3
                /\ \A k \in 1..(Len(log) - 1) : ~log[k]
                /\ header[j] = log[Len(log)]
                /\ (\A k \in 1..Len(log) : ~log[k]) => Len(log) = 3

\* a member fetched three times without a header
RetryBoundWitness ==
    \E j \in Jobs :
        /\ pc[j] = "fetched"
        /\ obs[j].hdrLog = <<FALSE, FALSE, FALSE>>

(***************************************************************************)
(* Properties of a self-update pass                                        *)
(***************************************************************************)
CallOk(c) == c.result \in {"ok", "200", "204", "404"}
Issued(ops) == SelectSeq(calls, LAMBDA c : c.op \in ops)

\* C6: a pass that found the remote digest different from the local one and
\* in which every call succeeded and a container was listed has issued one
\* pull and then one restart, of the first container listed; and no restart
\* is ever issued before a pull.
FullPath ==
    /\ (/\ upc = "idle"
        /\ remoteDigest # ""
        /\ remoteDigest # localDigest
        /\ \A k \in 1..Len(calls) : CallOk(calls[k])
        /\ containers # << >>) =>
            LET pr == Issued({"pull", "restart"})
            IN  /\ Len(pr) = 2
                /\ pr[1].op = "pull"
                /\ pr[2].op = "restart"
                /\ pr[2].target = containers[1]
                /\ containerID = containers[1]
    /\ \A i \in 1..Len(calls) :
          calls[i].op = "restart" =>
              \E k \in 1..(i - 1) : calls[k].op = "pull" /\ CallOk(calls[k])

\* a pass that went all the way with two containers listed
FullPathWitness ==
    /\ upc = "idle"
    /\ Len(calls) = 6
    /\ \A k \in 1..Len(calls) : CallOk(calls[k])
    /\ calls[6].op = "restart"
    /\ Len(containers) = 2

\* C7: once the local digest is resolved and equals the remote digest, the
\* pass is at the comparison or over; it has issued no pull, no container
\* listing and no restart, and the process has not exited.
NoOp ==
    (remoteDigest # "" /\ localDigest = remoteDigest) =>
        /\ upc \in {"compare", "idle"}
        /\ Issued({"pull", "list", "restart"}) = << >>
        /\ exited = 0

\* a pass that ended at the comparison of two equal digests
NoOpWitness ==
    /\ upc = "idle"
    /\ remoteDigest # ""
    /\ localDigest = remoteDigest
    /\ Len(calls) = 3

\* C8: when the listing after a pull is answered with no container, the
\* process has exited with status 1 and no restart has been issued.
MissingTarget ==
    (/\ \E k \in 1..Len(calls) : calls[k].op = "list" /\ CallOk(calls[k])
     /\ containers = << >>) =>
        /\ exited = 1
        /\ Issued({"restart"}) = << >>
        /\ \E k \in 1..Len(calls) : calls[k].op = "pull" /\ CallOk(calls[k])

\* the process has exited after an empty listing
MissingTargetWitness ==
    /\ exited = 1
    /\ calls # << >>
    /\ calls[Len(calls)] = Call("list", "", "ok")
    /\ containers = << >>

\* C9: when a restart has failed the process has exited with status 1 and
\* that restart is the only one of the pass.
RestartFailureTerminal ==
    (\E k \in 1..Len(calls) : calls[k].op = "restart" /\ ~CallOk(calls[k])) =>
        /\ exited = 1
        /\ Len(Issued({"restart"})) = 1

\* the process has exited after a failed restart
RestartFailureWitness ==
    /\ exited = 1
    /\ calls # << >>
    /\ calls[Len(calls)].op = "restart"
    /\ ~CallOk(calls[Len(calls)])

(***************************************************************************)
(* Scheduling                                                              *)
(***************************************************************************)
\* C10: at most one roster pass (blizzClient) is in progress at any time,
\* also when the goroutine of the OnServe hook is still in its pass when the
\* cron job fires.
MutualExclusion == Cardinality({j \in Jobs : pc[j] # "idle"}) <= 1

(***************************************************************************)
(* Properties of the member loop and of the cleanup                        *)
(***************************************************************************)
\* the ids of the members of the roster the pass works on
MemberIds(j) == {FormatInt(roster[j].Members[k]) : k \in 1..Len(roster[j].Members)}

\* C13: a pass has issued a Delete for exactly the records of its snapshot
\* that the cleanup loop has visited and whose id is not in rosterKeys (at
\* its end: exactly the snapshot records whose id was not seen), and no
\* Delete is issued before every member of the roster has been processed.
CleanupExtent ==
    \A j \in Jobs :
        obs[j].alone =>
            /\ obs[j].deleted # {} =>
                 /\ pc[j] \in {"cleanup", "done"}
                 /\ idx[j] > Len(roster[j].Members)
                 /\ MemberIds(j) = rosterKeys[j] \cup obs[j].skippedNil
                                                 \cup obs[j].skippedErr
            /\ pc[j] = "cleanup" =>
                 obs[j].deleted = (Keys(existingRecords[j]) \ todo[j]) \ rosterKeys[j]
            /\ pc[j] = "done" =>
                 obs[j].deleted = Keys(existingRecords[j]) \ rosterKeys[j]

\* a pass at its end that deleted one snapshot record and kept a seen one
CleanupExtentWitness ==
    \E j \in Jobs :
        /\ Completed(j)
        /\ obs[j].deleted # {}
        /\ rosterKeys[j] \cap Keys(existingRecords[j]) # {}

\* C14: every id a Save was issued for is in rosterKeys, whether the Save
\* succeeded or failed, and no Delete is issued for it by the same pass.
SeenRegardlessOfWrite ==
    \A j \in Jobs :
        obs[j].alone =>
            /\ obs[j].saved \subseteq rosterKeys[j]
            /\ obs[j].saved \cap obs[j].deleted = {}

\* a pass at its end whose Save of a snapshot record failed and which issued
\* a Delete for another record
SeenRegardlessOfWriteWitness ==
    \E j \in Jobs :
        /\ Completed(j)
        /\ obs[j].saved \cap obs[j].failed \cap Keys(existingRecords[j]) # {}
        /\ obs[j].deleted # {}

\* C15: a call that returned an error together with a header is the last
\* call made for its member (the only one when it is the first call), and
\* the member is skipped: its id is not marked seen and no Save is issued
\* for it.
ExplicitErrorSkips ==
    \A j \in Jobs :
        obs[j].alone =>
            /\ (pc[j] = "fetched" /\ header[j] /\ err[j]) =>
                 LET log == obs[j].hdrLog
                 IN  /\ \A k \in 1..(Len(log) - 1) : ~log[k]
                     /\ log[1] => Len(log) = 1
            /\ obs[j].skippedErr \cap obs[j].saved = {}
            /\ obs[j].skippedErr \cap rosterKeys[j] = {}

\* a pass at its end that skipped a member for an explicit error and saved
\* another one
ExplicitErrorSkipsWitness ==
    \E j \in Jobs :
        /\ Completed(j)
        /\ obs[j].skippedErr # {}
        /\ obs[j].saved # {}


\* C16: a pass that has its snapshot comes to its end only after the member
\* loop has gone through every member of the roster and the cleanup loop
\* through every record of the snapshot, whether writes failed or not; and a
\* pass in which a write has failed comes to its end.
WriteFailureDoesNotAbort ==
    /\ [](\A j \in Jobs :
            (pc[j] = "done" /\ obs[j].alone /\ ~obs[j].findErr) =>
                /\ idx[j] > Len(roster[j].Members)
                /\ MemberIds(j) = rosterKeys[j] \cup obs[j].skippedNil
                                                \cup obs[j].skippedErr
                /\ todo[j] = {}
                /\ obs[j].deleted = Keys(existingRecords[j]) \ rosterKeys[j])
    /\ \A j \in Jobs :
          (obs[j].alone /\ obs[j].failed # {}) ~> (pc[j] = "done")

\* a pass at its end whose Save for the first member failed and whose Save
\* for the last member succeeded
WriteFailureDoesNotAbortWitness ==
    \E j \in Jobs :
        /\ Completed(j)
        /\ Len(roster[j].Members) >= 2
        /\ FormatInt(roster[j].Members[1]) \in obs[j].saved \cap obs[j].failed
        /\ FormatInt(roster[j].Members[Len(roster[j].Members)])
              \in obs[j].saved \ obs[j].failed

\* the record a Save of the profile of the character with id k stores
Target(k) ==
    LET m == CHOOSE i \in RemoteRoster : FormatInt(i) = k
    IN  setRecordFields(fieldValues(m, remoteLevel[m]))

\* C17: whatever the store held at its start, a pass in which no write failed
\* ends with the store holding the record of the remote profile for exactly
\* the ids it has seen; so a pass without write failures that follows a pass
\* with failed writes over the same remote data ends in the state in which a
\* single pass without write failures ends.
PartialApplicationSafe ==
    \A j \in Jobs :
        (Completed(j) /\ obs[j].failed = {}) =>
            /\ Keys(store) = rosterKeys[j]
            /\ \A k \in rosterKeys[j] : store[k] = Target(k)

\* a pass at its end without a failed write that had to write, after a pass
\* over the same remote data in which a write failed
PartialApplicationSafeWitness ==
    \E j \in Jobs :
        /\ Completed(j)
        /\ lastFaulty
        /\ obs[j].failed = {}
        /\ rosterKeys[j] = RosterIds
        /\ obs[j].saved \cup obs[j].deleted # {}

(***************************************************************************)
(* Failures of a self-update pass                                          *)
(***************************************************************************)
Failed(ops) == \E k \in 1..Len(calls) : calls[k].op \in ops /\ ~CallOk(calls[k])

\* C18: when the token request or the manifest request of a pass has failed
\* (request failed, status not 200, no digest header), the pass is over with
\* no remote digest; that call is its last one: no inspect, pull, container
\* listing or restart is issued and the process has not exited.
RemoteDigestFailureAborts ==
    Failed({"token", "manifest"}) =>
        /\ upc = "idle"
        /\ remoteDigest = ""
        /\ ~CallOk(calls[Len(calls)])
        /\ Issued({"inspect", "pull", "list", "restart"}) = << >>
        /\ exited = 0

\* a pass that ended on a manifest answer without the digest header
RemoteDigestFailureWitness ==
    /\ upc = "idle"
    /\ calls = <<Call("token", "", "ok"), Call("manifest", "", "noDigestHeader")>>

\* C19: after an inspect answered 404 the local digest is empty and the pass
\* goes on to the comparison and the pull; after an inspect that failed in
\* any other way the pass is over: no pull, container listing or restart is
\* issued and the process has not exited.
LocalDigestResolution ==
    /\ (\E k \in 1..Len(calls) : calls[k] = Call("inspect", "", "404")) =>
          /\ localDigest = ""
          /\ upc \in {"compare", "pull"} \/ Issued({"pull"}) # << >>
    /\ Failed({"inspect"}) =>
          /\ upc = "idle"
          /\ Issued({"pull", "list", "restart"}) = << >>
          /\ exited = 0

\* a pass that pulled after the engine answered 404 to the inspect
LocalDigestResolutionWitness ==
    /\ Len(calls) >= 4
    /\ calls[3] = Call("inspect", "", "404")
    /\ calls[4].op = "pull"

\* the digest of the image the engine holds
EngineDigest ==
    IF localImage.present THEN FirstRepoDigest(localImage.RepoDigests) ELSE ""

\* C20: when the pull of a pass has failed (status not 200, unreadable
\* stream, error event), the pass is over: that pull is its only one, the
\* image is what it was, no container listing and no restart is issued and
\* the process has not exited; and a pass that follows a pass ended on a
\* failed pull and finds the digests different goes to the pull again.
PullFailureAborts ==
    /\ Failed({"pull"}) =>
          /\ upc = "idle"
          /\ Len(Issued({"pull"})) = 1
          /\ localDigest = EngineDigest
          /\ Issued({"list", "restart"}) = << >>
          /\ exited = 0
    /\ (/\ prevPullFailed
        /\ \E k \in 1..Len(calls) : calls[k].op = "inspect" /\ CallOk(calls[k])
        /\ upc # "compare"
        /\ localDigest # remoteDigest) =>
          (upc = "pull" \/ Issued({"pull"}) # << >>)

\* the pass after one that ended on a failed pull has pulled
PullFailureAbortsWitness ==
    /\ prevPullFailed
    /\ Issued({"pull"}) # << >>

(***************************************************************************)
(* Properties of the transport and of the comparison                       *)
(***************************************************************************)
\* C11: RoundTrip calls the wrapped sender at most once for a request, and
\* exactly once when Wait has admitted it; when Wait returns an error the
\* context of the request is done, the caller gets an error and the wrapped
\* sender is never called; a request whose context is live is not returned
\* without having been sent; and a request that waits is admitted unless
\* its context is done first.
ThrottledForwarding ==
    /\ [](\A r \in Reqs :
            /\ forwards[r] <= 1
            /\ forwards[r] = 1 => (rpc[r] = "returned" /\ ~waitErr[r])
            /\ rpc[r] = "returned" => (forwards[r] = 1 <=> ~waitErr[r])
            /\ waitErr[r] =>
                  /\ ctx[r] = "done"
                  /\ rpc[r] = "returned"
                  /\ forwards[r] = 0
                  /\ resp[r] = "error"
            /\ (rpc[r] = "returned" /\ ctx[r] = "live") => forwards[r] = 1)
    /\ \A r \in Reqs :
          (rpc[r] = "wait") ~> (rpc[r] = "admitted" \/ ctx[r] = "done")

\* as many requests as the burst have been sent, one with a live context is
\* waiting for a token, and one whose context was done has been refused
ThrottledForwardingWitness ==
    /\ Cardinality({r \in Reqs : forwards[r] = 1}) >= burst
    /\ \E r \in Reqs : rpc[r] = "wait" /\ ctx[r] = "live" /\ tokens = 0
    /\ \E r \in Reqs : waitErr[r]

IsFloat(x) == x.kind \in {"float64", "float32"}

\* C12: the comparison finds a float with no fraction equal to the text of
\* its integer and to that integer, a float with a fraction equal to its
\* decimal text and to no integer, and two floats equal when they are the
\* same number; 5.0 equals "5" and 5, 5.5 equals "5.5", 5.0 differs from 6.0.
Normalization ==
    differs # "unknown" =>
        LET eq == (differs = "same")
        IN  /\ (IsFloat(stored) /\ stored.num % 10 = 0) =>
                  /\ candidate.kind = "string" =>
                        (eq <=> candidate.text = FormatInt(stored.num \div 10))
                  /\ candidate.kind = "int" =>
                        (eq <=> candidate.num * 10 = stored.num)
            /\ (IsFloat(stored) /\ stored.num % 10 # 0) =>
                  /\ candidate.kind = "string" =>
                        (eq <=> candidate.text = FormatFloatFixed1(stored.num))
                  /\ candidate.kind = "int" => ~eq
            /\ (IsFloat(stored) /\ IsFloat(candidate)) =>
                  (eq <=> stored.num = candidate.num)
            /\ (stored = Float64Of(50) /\ candidate = TextOf(<<"5">>)) => eq
            /\ (stored = Float64Of(50) /\ candidate = IntOf(5)) => eq
            /\ (stored = Float64Of(55) /\ candidate = TextOf(<<"5", ".", "5">>)) => eq
            /\ (stored = Float64Of(50) /\ candidate = Float64Of(60)) => ~eq

\* 5.0 has been compared with "5" and found the same
NormalizationWitness ==
    /\ differs = "same"
    /\ stored = Float64Of(50)
    /\ candidate = TextOf(<<"5">>)

(***************************************************************************)
(* The store after a pass                                                  *)
(***************************************************************************)
\* the ids whose profile fetch succeeded: the members the loop has been
\* through and has not skipped
Seen(j) ==
    {FormatInt(roster[j].Members[k]) : k \in 1..(idx[j] - 1)}
        \ (obs[j].skippedNil \cup obs[j].skippedErr)

\* C23 as stated: at the end of a pass that ran alone and in which no Save
\* and no Delete failed, the keys of the store are the ids whose profile
\* fetch succeeded.
KeySetIsSeenSet ==
    \A j \in Jobs :
        (pc[j] = "done" /\ obs[j].alone /\ obs[j].failed = {}) =>
            Keys(store) = Seen(j)

\* C23, for a pass that loaded its snapshot: at the end of a pass that ran
\* alone, whose FindAllRecords succeeded and in which no Save and no Delete
\* failed, the keys of the store are the ids whose profile fetch succeeded,
\* which are the ids in rosterKeys.
LoadedKeySetIsSeenSet ==
    \A j \in Jobs :
        (pc[j] = "done" /\ obs[j].alone /\ ~obs[j].findErr
                        /\ obs[j].failed = {}) =>
            /\ rosterKeys[j] = Seen(j)
            /\ \A k \in Seen(j) : k \in Keys(store)
            /\ \A k \in Keys(store) : k \in Seen(j)

\* a pass at its end that created the record of a seen member and deleted the
\* record of a skipped one
LoadedKeySetIsSeenSetWitness ==
    \E j \in Jobs :
        /\ Completed(j)
        /\ obs[j].failed = {}
        /\ obs[j].saved \ Keys(existingRecords[j]) # {}
        /\ obs[j].deleted \cap (obs[j].skippedNil \cup obs[j].skippedErr) # {}

(***************************************************************************)
(* Properties of the quota                                                 *)
(***************************************************************************)
\* C21: every remote call of the two jobs goes through a limiter, the same
\* one for all of them, and no pass builds another one.
SharedLimiter ==
    /\ limiters <= 1
    /\ \A c \in remoteCalls : c.limiter = 1

\* the requests admitted in the window of Period time units that starts at s
RECURSIVE AdmittedFrom(_, _)
AdmittedFrom(s, n) ==
    IF n = 0 \/ s > MaxTime THEN 0
    ELSE admits[s] + AdmittedFrom(s + 1, n - 1)

\* C22: in every window of Period time units the limiter has admitted at
\* most as many requests as its burst, the requestCount it was built with.
ThroughputBound ==
    \A s \in 0..MaxTime : AdmittedFrom(s, Period) <= burst

\* a burst of two requests was admitted in one window, and another request
\* after it
ThroughputBoundWitness ==
    /\ burst >= 2
    /\ \E s \in 0..MaxTime :
          /\ AdmittedFrom(s, Period) = burst
          /\ \E u \in (s + Period)..MaxTime : admits[u] >= 1

=============================================================================
